---- MODULE Spec2Model ----
(***************************************************************************)
(* Model of sx.  Spec and SpecKinds: the backend manager                    *)
(* (backends/manager.go), its registry, primary, ordered fallback list and  *)
(* the search-with-fallback algorithm, every exported method one action.    *)
(* SpecSerial: Manager.Search followed from provider call to provider       *)
(* return.  SpecSession: one run of runSearch (main.go), the growth loop    *)
(* that fills the result buffer and the interactive commands, one action    *)
(* per Dispatcher answer and per command.  The providers' answers and the   *)
(* user's lines are the environment's choice.                               *)
(***************************************************************************)
EXTENDS Integers, Sequences, FiniteSets, TLC

VARIABLES registry, primary, fallbacks, last, sess, inv

vars == <<registry, primary, fallbacks, last, sess, inv>>

(* ---------------------------- bounds ------------------------------------ *)

\* longest list of names handed to SetFallbacks
MaxFallbacks == 2
\* most results one provider returns for one Search call
MaxResults == 1
\* largest config.ResultCount (results per page) of a session
MaxCount == 2
\* most results the providers have for one query: the longest buffer
MaxBuffer == 2
\* largest page number at which "n" is still entered
MaxPage == 4

(* ----------------------- backends/interface.go -------------------------- *)

ErrCodeUnavailable == 0
ErrCodeNetwork == 1
ErrCodeAuth == 2
ErrCodeRateLimit == 3
ErrCodeInvalidResponse == 4

ErrCodes ==
    {ErrCodeUnavailable, ErrCodeNetwork, ErrCodeAuth, ErrCodeRateLimit,
     ErrCodeInvalidResponse}

\* a nil pointer / nil interface value
Nil == "nil"

\* The SearchBackend values that exist in a run.  b4 is a second Brave
\* backend (one constructed with an API key), so that a name can be
\* registered twice with different objects.
Backends == {"b1", "b2", "b3", "b4"}

\* SearchBackend.Name()
Name(b) ==
    CASE b = "b1" -> "searxng"
      [] b = "b2" -> "brave"
      [] b = "b3" -> "tavily"
      [] b = "b4" -> "brave"

\* SearchBackend.IsAvailable(): a local check of the backend's own
\* configuration; b2 is the Brave backend built with an empty API key.
IsAvailable(b) == b # "b2"

\* names a caller may pass: those of the backends and one nobody registers
NameInputs == {Name(b) : b \in Backends} \cup {"nonexistent"}

\* the nil error
NoErr == [type |-> "nil", Backend |-> "", Code |-> -1, msg |-> <<>>, list |-> {}]

\* &BackendError{Backend: b.Name(), Err: cause, Code: code}
BackendError(b, code) ==
    [type |-> "BackendError", Backend |-> Name(b), Code |-> code,
     msg |-> <<CASE code = ErrCodeUnavailable -> "not configured"
                 [] code = ErrCodeNetwork -> "request failed"
                 [] code = ErrCodeAuth -> "authentication failed"
                 [] code = ErrCodeRateLimit -> "rate limited"
                 [] code = ErrCodeInvalidResponse -> "failed to parse JSON">>,
     list |-> {}]

\* fmt.Errorf(msg): an error that is no BackendError; msg is the text as a
\* sequence of tokens
Errorf(msg) ==
    [type |-> "error", Backend |-> "", Code |-> -1, msg |-> msg, list |-> {}]

\* error.Error(): the text of an error, a sequence of tokens.
\* BackendError.Error() is "<Backend> backend: <Err>".
Error(e) ==
    IF e.type = "BackendError"
    THEN <<e.Backend, " backend: ">> \o e.msg
    ELSE e.msg

\* a page of n results as backend b would return it
Results(b, n) == [i \in 1..n |-> [Title |-> i, Engine |-> b]]

\* every error a backend's Search can return: a BackendError of each of the
\* five codes, or (the mocks of the tests) an error that is no BackendError
AnyError == [b \in Backends |->
    {BackendError(b, c) : c \in ErrCodes} \cup {Errorf(<<"connection refused">>)}]

\* the errors of a run in which every failure is a network failure
NetworkError == [b \in Backends |-> {BackendError(b, ErrCodeNetwork)}]

\* What b.Search(opts) may return: a page of 0..MaxResults results and no
\* error, or one of the errors errs[b]. The manager passes opts through unread.
BackendSearch(b, errs) ==
    {[results |-> Results(b, n), err |-> NoErr] : n \in 0..MaxResults}
    \cup {[results |-> <<>>, err |-> e] : e \in errs[b]}

(* ------------------------ backends/manager.go --------------------------- *)

\* no search session has been started (the manager is used on its own)
NoSession == [pc |-> "none"]

\* no Manager.Search call is being followed step by step
NoCall == [pc |-> "none"]

\* Join listing the elements last to first
RECURSIVE Join_Reversed(_, _)
Join_Reversed(elems, sep) ==
    IF Len(elems) = 0 THEN <<>>
    ELSE IF Len(elems) = 1 THEN elems[1]
    ELSE Join_Reversed(Tail(elems), sep) \o <<sep>> \o elems[1]

\* strings.Join(elems, sep) over token sequences
RECURSIVE Join(_, _)
Join(elems, sep) ==
    IF Len(elems) = 0 THEN <<>>
    ELSE IF Len(elems) = 1 THEN elems[1]
    ELSE elems[1] \o <<sep>> \o Join(Tail(elems), sep)

\* fmt.Errorf("<what>: %s (available: %s)", name, m.availableNames()): the
\* names listed are the registry's keys joined by ", " in the order of a Go
\* map iteration, which is unspecified: the text keeps them as the set `list`
unknownBackend(what, name) ==
    [type |-> "error", Backend |-> "", Code |-> -1,
     msg |-> <<what, name, " (available: ", ")">>, list |-> DOMAIN registry]

\* what a call left behind: the operation, its argument, what it returned
\* and the provider methods it invoked, in order
Ret(op, arg, results, name, err, trace) ==
    [op |-> op, arg |-> arg, results |-> results, name |-> name, err |-> err,
     trace |-> trace]

\* one provider method invoked by the manager: pos 0 is the primary, pos i
\* the i-th fallback; results and err are what Search returned (none for
\* IsAvailable, whose answer is IsAvailable(b))
Event(call, pos, b, results, err) ==
    [call |-> call, pos |-> pos, backend |-> b, results |-> results, err |-> err]

TypeOK ==
    /\ DOMAIN registry \subseteq NameInputs
    /\ \A n \in DOMAIN registry : registry[n] \in Backends /\ Name(registry[n]) = n
    /\ primary \in Backends \cup {Nil}
    /\ fallbacks \in Seq(Backends) /\ Len(fallbacks) <= MaxFallbacks

\* NewManager()
Init ==
    /\ registry = <<>>
    /\ primary = Nil
    /\ fallbacks = <<>>
    /\ last = Ret("NewManager", <<>>, <<>>, "", NoErr, <<>>)
    /\ sess = NoSession
    /\ inv = NoCall

\* Register keeping the provider already registered under the name
Register_FirstWins(b) ==
    /\ registry' = registry @@ (Name(b) :> b)
    /\ last' = Ret("Register", <<Name(b)>>, <<>>, "", NoErr, <<>>)
    /\ UNCHANGED <<primary, fallbacks, sess, inv>>

\* Manager.Register(backend)
Register(b) ==
    /\ registry' = (Name(b) :> b) @@ registry
    /\ last' = Ret("Register", <<Name(b)>>, <<>>, "", NoErr, <<>>)
    /\ UNCHANGED <<primary, fallbacks, sess, inv>>

\* SetPrimary clearing the primary when the name is unknown
SetPrimary_ClearOnError(name) ==
    /\ IF name \in DOMAIN registry
       THEN /\ primary' = registry[name]
            /\ last' = Ret("SetPrimary", <<name>>, <<>>, "", NoErr, <<>>)
       ELSE /\ primary' = Nil
            /\ last' = Ret("SetPrimary", <<name>>, <<>>, "",
                           unknownBackend("unknown backend: ", name), <<>>)
    /\ UNCHANGED <<registry, fallbacks, sess, inv>>

\* Manager.SetPrimary(name)
SetPrimary(name) ==
    /\ IF name \in DOMAIN registry
       THEN /\ primary' = registry[name]
            /\ last' = Ret("SetPrimary", <<name>>, <<>>, "", NoErr, <<>>)
       ELSE /\ primary' = primary
            /\ last' = Ret("SetPrimary", <<name>>, <<>>, "",
                           unknownBackend("unknown backend: ", name), <<>>)
    /\ UNCHANGED <<registry, fallbacks, sess, inv>>

\* the loop of Manager.SetFallbacks over names[i..]: acc is m.fallbacks so
\* far; the first unregistered name returns with what was appended before it
RECURSIVE setFallbacksLoop(_, _, _)
setFallbacksLoop(names, i, acc) ==
    IF i > Len(names) THEN [fallbacks |-> acc, unknown |-> Nil]
    ELSE IF names[i] \notin DOMAIN registry
         THEN [fallbacks |-> acc, unknown |-> names[i]]
         ELSE setFallbacksLoop(names, i + 1, Append(acc, registry[names[i]]))

\* Manager.SetFallbacks(names): m.fallbacks = nil, then the loop
SetFallbacks(names) ==
    LET r == setFallbacksLoop(names, 1, <<>>) IN
    /\ fallbacks' = r.fallbacks
    /\ IF r.unknown = Nil
       THEN last' = Ret("SetFallbacks", names, <<>>, "", NoErr, <<>>)
       ELSE last' = Ret("SetFallbacks", names, <<>>, "",
                        unknownBackend("unknown fallback backend: ", r.unknown),
                        <<>>)
    /\ UNCHANGED <<registry, primary, sess, inv>>

\* the provider at a position of the chain: 0 the primary, i the i-th fallback
BackendAt(pos) == IF pos = 0 THEN primary ELSE fallbacks[pos]

\* skipFallback without the IsAvailable check
skipFallback_Never(fb) == FALSE

\* line 68 of Manager.Search: the fallback is skipped, not searched
skipFallback(fb) == ~IsAvailable(fb)

\* succeeded, an empty page taken for a failure
succeeded_NonEmpty(o) == o.err = NoErr /\ o.results # <<>>

\* lines 59 and 74 of Manager.Search: this answer ends the search
succeeded(o) == o.err = NoErr

\* tryFallbacks walking the fallback list from its end
RECURSIVE tryFallbacks_Reversed(_, _, _, _)
tryFallbacks_Reversed(i, errors, trace, errs) ==
    IF i > Len(fallbacks)
    THEN {Ret("Search", <<>>, <<>>, "",
              Errorf(<<"all backends failed:", "\n  ">> \o Join(errors, "\n  ")),
              trace)}
    ELSE LET p == Len(fallbacks) + 1 - i
             fb == fallbacks[p]
             t1 == Append(trace, Event("IsAvailable", p, fb, <<>>, NoErr))
         IN  IF skipFallback(fb)
             THEN tryFallbacks_Reversed(i + 1,
                               Append(errors, <<Name(fb), ": not configured">>),
                               t1, errs)
             ELSE UNION {
                    LET t2 == Append(t1, Event("Search", p, fb, o.results, o.err)) IN
                    IF succeeded(o)
                    THEN {Ret("Search", <<>>, o.results, Name(fb), NoErr, t2)}
                    ELSE tryFallbacks_Reversed(i + 1, Append(errors, Error(o.err)),
                                               t2, errs)
                    : o \in BackendSearch(fb, errs)}

\* The fallback loop of Manager.Search from position i on: errors is the
\* list of messages collected so far, trace the provider calls made so far.
\* The value is the set of ways the call can end, one for each way the
\* providers asked can answer.
RECURSIVE tryFallbacks(_, _, _, _)
tryFallbacks(i, errors, trace, errs) ==
    IF i > Len(fallbacks)
    THEN {Ret("Search", <<>>, <<>>, "",
              Errorf(<<"all backends failed:", "\n  ">> \o Join(errors, "\n  ")),
              trace)}
    ELSE LET fb == fallbacks[i]
             t1 == Append(trace, Event("IsAvailable", i, fb, <<>>, NoErr))
         IN  IF skipFallback(fb)
             THEN tryFallbacks(i + 1,
                               Append(errors, <<Name(fb), ": not configured">>),
                               t1, errs)
             ELSE UNION {
                    LET t2 == Append(t1, Event("Search", i, fb, o.results, o.err)) IN
                    IF succeeded(o)
                    THEN {Ret("Search", <<>>, o.results, Name(fb), NoErr, t2)}
                    ELSE tryFallbacks(i + 1, Append(errors, Error(o.err)), t2, errs)
                    : o \in BackendSearch(fb, errs)}

\* ManagerSearch without the return after the primary's success
ManagerSearch_FallThrough(errs) ==
    IF primary = Nil
    THEN {Ret("Search", <<>>, <<>>, "",
              Errorf(<<"no primary backend configured">>), <<>>)}
    ELSE UNION {
           LET t == <<Event("Search", 0, primary, o.results, o.err)>> IN
           tryFallbacks(1, IF succeeded(o) THEN <<>> ELSE <<Error(o.err)>>, t, errs)
           : o \in BackendSearch(primary, errs)}

\* ManagerSearch without the check for a nil primary: the chain starts at
\* the fallbacks
ManagerSearch_NoNilCheck(errs) ==
    IF primary = Nil
    THEN tryFallbacks(1, <<>>, <<>>, errs)
    ELSE UNION {
           LET t == <<Event("Search", 0, primary, o.results, o.err)>> IN
           IF succeeded(o)
           THEN {Ret("Search", <<>>, o.results, Name(primary), NoErr, t)}
           ELSE tryFallbacks(1, <<Error(o.err)>>, t, errs)
           : o \in BackendSearch(primary, errs)}

\* ManagerSearch giving up at once when the primary's error is an
\* authentication failure
ManagerSearch_AuthFatal(errs) ==
    IF primary = Nil
    THEN {Ret("Search", <<>>, <<>>, "",
              Errorf(<<"no primary backend configured">>), <<>>)}
    ELSE UNION {
           LET t == <<Event("Search", 0, primary, o.results, o.err)>> IN
           IF succeeded(o)
           THEN {Ret("Search", <<>>, o.results, Name(primary), NoErr, t)}
           ELSE IF o.err.Code = ErrCodeAuth
                THEN {Ret("Search", <<>>, <<>>, "", o.err, t)}
                ELSE tryFallbacks(1, <<Error(o.err)>>, t, errs)
           : o \in BackendSearch(primary, errs)}

\* Manager.Search(opts): every way the call can end in the current state
ManagerSearch(errs) ==
    IF primary = Nil
    THEN {Ret("Search", <<>>, <<>>, "",
              Errorf(<<"no primary backend configured">>), <<>>)}
    ELSE UNION {
           LET t == <<Event("Search", 0, primary, o.results, o.err)>> IN
           IF succeeded(o)
           THEN {Ret("Search", <<>>, o.results, Name(primary), NoErr, t)}
           ELSE tryFallbacks(1, <<Error(o.err)>>, t, errs)
           : o \in BackendSearch(primary, errs)}

\* Search making the provider that answered the primary
Search_Promote ==
    /\ \E run \in ManagerSearch(NetworkError) :
         /\ last' = run
         /\ primary' = IF run.err = NoErr /\ run.trace # <<>>
                       THEN run.trace[Len(run.trace)].backend
                       ELSE primary
    /\ UNCHANGED <<registry, fallbacks, sess, inv>>

\* Manager.Search(opts), a failing provider failing with a network error
Search ==
    /\ \E run \in ManagerSearch(NetworkError) : last' = run
    /\ UNCHANGED <<registry, primary, fallbacks, sess, inv>>

\* ManagerSearchExplicit without the IsAvailable check
ManagerSearchExplicit_NoCheck(name, errs) ==
    IF name \notin DOMAIN registry
    THEN {Ret("SearchExplicit", <<name>>, <<>>, "",
              unknownBackend("unknown backend: ", name), <<>>)}
    ELSE LET backend == registry[name] IN
         {Ret("SearchExplicit", <<name>>, o.results, "", o.err,
              <<Event("Search", 0, backend, o.results, o.err)>>)
          : o \in BackendSearch(backend, errs)}

\* Manager.SearchExplicit(name, opts): every way the call can end
ManagerSearchExplicit(name, errs) ==
    IF name \notin DOMAIN registry
    THEN {Ret("SearchExplicit", <<name>>, <<>>, "",
              unknownBackend("unknown backend: ", name), <<>>)}
    ELSE LET backend == registry[name]
             t1 == <<Event("IsAvailable", 0, backend, <<>>, NoErr)>>
         IN  IF ~IsAvailable(backend)
             THEN {Ret("SearchExplicit", <<name>>, <<>>, "",
                       Errorf(<<"backend ", name,
                                " is not configured (missing API key?)">>),
                       t1)}
             ELSE {Ret("SearchExplicit", <<name>>, o.results, "", o.err,
                       Append(t1, Event("Search", 0, backend, o.results, o.err)))
                   : o \in BackendSearch(backend, errs)}

\* Manager.SearchExplicit(name, opts)
SearchExplicit(name) ==
    /\ \E run \in ManagerSearchExplicit(name, NetworkError) : last' = run
    /\ UNCHANGED <<registry, primary, fallbacks, sess, inv>>

\* Manager.GetBackend(name): the provider registered under name, and ok
GetBackend(name) ==
    IF name \in DOMAIN registry
    THEN [backend |-> registry[name], ok |-> TRUE]
    ELSE [backend |-> Nil, ok |-> FALSE]

\* every listing of the elements of S, each once
RECURSIVE Orders(_)
Orders(S) ==
    IF S = {} THEN {<<>>}
    ELSE UNION {{<<x>> \o t : t \in Orders(S \ {x})} : x \in S}

\* Manager.AvailableBackends(): the registry's keys in the order of a Go map
\* iteration, which is unspecified; the value is the set of possible lists
AvailableBackends == Orders(DOMAIN registry)

\* Manager.ConfiguredBackends(): the names of the registered providers that
\* are available, in the order of the map iteration
ConfiguredBackends ==
    Orders({name \in DOMAIN registry : IsAvailable(registry[name])})

\* the lists of names handed to SetFallbacks
FallbackInputs == UNION {[1..n -> NameInputs] : n \in 0..MaxFallbacks}

Next ==
    \/ \E b \in Backends : Register(b)
    \/ \E name \in NameInputs : SetPrimary(name)
    \/ \E names \in FallbackInputs : SetFallbacks(names)
    \/ Search
    \/ \E name \in NameInputs : SearchExplicit(name)

Spec == Init /\ [][Next]_vars

\* the calls of the manager's read-only methods, their return values kept
\* in last
CallGetBackend(name) ==
    /\ last' = Ret("GetBackend", <<name>>, <<GetBackend(name)>>, "", NoErr, <<>>)
    /\ UNCHANGED <<registry, primary, fallbacks, sess, inv>>

CallAvailableBackends ==
    /\ \E names \in AvailableBackends :
         last' = Ret("AvailableBackends", <<>>, names, "", NoErr, <<>>)
    /\ UNCHANGED <<registry, primary, fallbacks, sess, inv>>

CallConfiguredBackends ==
    /\ \E names \in ConfiguredBackends :
         last' = Ret("ConfiguredBackends", <<>>, names, "", NoErr, <<>>)
    /\ UNCHANGED <<registry, primary, fallbacks, sess, inv>>

\* every method of the manager
NextMethods ==
    \/ Next
    \/ \E name \in NameInputs : CallGetBackend(name)
    \/ CallAvailableBackends
    \/ CallConfiguredBackends

SpecMethods == Init /\ [][NextMethods]_vars

(* ------------- the manager as initBackendManager leaves it -------------- *)

\* the lists of distinct names of S no longer than MaxFallbacks
RECURSIVE DistinctLists(_, _)
DistinctLists(S, n) ==
    IF n = 0 THEN {<<>>}
    ELSE {<<>>} \cup UNION {{<<x>> \o t : t \in DistinctLists(S \ {x}, n - 1)} : x \in S}

\* initBackendManager(config): the three backends registered (Brave with or
\* without an API key), config.Engine the primary, config.FallbackEngines
\* the fallbacks
initBackendManager(brave, engine, names) ==
    /\ registry = ("searxng" :> "b1") @@ ("brave" :> brave) @@ ("tavily" :> "b3")
    /\ primary = registry[engine]
    /\ fallbacks = [i \in 1..Len(names) |-> registry[names[i]]]
    /\ last = IF Len(names) > 0
              THEN Ret("SetFallbacks", names, <<>>, "", NoErr, <<>>)
              ELSE Ret("SetPrimary", <<engine>>, <<>>, "", NoErr, <<>>)

\* the manager of every configuration: any engine the primary, the fallbacks
\* a list of other engines, none twice
InitBackendManager ==
    \E brave \in {"b2", "b4"}, engine \in {"searxng", "brave", "tavily"} :
      \E names \in DistinctLists({"searxng", "brave", "tavily"} \ {engine}, MaxFallbacks) :
        /\ initBackendManager(brave, engine, names)
        /\ sess = NoSession
        /\ inv = NoCall

\* Manager.Search(opts), a failing provider failing with any error
SearchAnyError ==
    /\ \E run \in ManagerSearch(AnyError) : last' = run
    /\ UNCHANGED <<registry, primary, fallbacks, sess, inv>>

\* Manager.SearchExplicit(name, opts), the provider failing with any error
SearchExplicitAnyError(name) ==
    /\ \E run \in ManagerSearchExplicit(name, AnyError) : last' = run
    /\ UNCHANGED <<registry, primary, fallbacks, sess, inv>>

NextKinds ==
    \/ SearchAnyError
    \/ \E name \in NameInputs : SearchExplicitAnyError(name)

\* the configured manager searching, every kind of provider error possible
SpecKinds == InitBackendManager /\ [][NextKinds]_vars

(* ------------------- the search session (main.go, search.go) ------------------- *)

\* validateTimeRange(timeRange): one of timeRangeOptions or timeRangeShortOptions
validateTimeRange_Any(timeRange) == TRUE

validateTimeRange(timeRange) ==
    \/ timeRange \in {"day", "week", "month", "year"}
    \/ timeRange \in {"d", "w", "m", "y"}

\* expandTimeRange leaving the short forms as they are
expandTimeRange_Identity(timeRange) == timeRange

\* expandTimeRange(timeRange)
expandTimeRange(timeRange) ==
    CASE timeRange = "d" -> "day"
      [] timeRange = "w" -> "week"
      [] timeRange = "m" -> "month"
      [] timeRange = "y" -> "year"
      [] OTHER -> timeRange

\* strconv.Atoi(str) for the decimal numerals of 0..MaxBuffer + 1: ok is
\* false (err != nil) for every other string
Atoi(str) ==
    IF \E n \in 0..(MaxBuffer + 1) : ToString(n) = str
    THEN [ok |-> TRUE, n |-> CHOOSE n \in 0..(MaxBuffer + 1) : ToString(n) = str]
    ELSE [ok |-> FALSE, n |-> 0]

\* what the user may type after "r "
TimeRangeInputs == {"w", "week", "fortnight"}
\* ... after "site:"
SiteInputs == {"example.com"}
\* ... after "c " and "j "
IndexInputs == {"0", "1", ToString(MaxBuffer + 1), "one"}
\* ... as a line that is no command
DefaultInputs == {"rust", "1", ToString(MaxBuffer + 1), ""}

\* the SearchOptions performSearch hands to the manager (search.go:95-105)
Opts(s) ==
    [Query |-> s.query, TimeRange |-> s.TimeRange, Site |-> s.Site,
     PageNo |-> s.PageNo, NumResults |-> s.ResultCount]

\* the results a provider returned for opts
Page(results, opts) ==
    [i \in DOMAIN results |->
        [Title |-> results[i].Title, Engine |-> results[i].Engine, opts |-> opts]]

\* performSearch(query, config, &searchOpts, mgr, explicitEngine): every
\* way it can return (results, engine, err)
performSearch(s) ==
    IF s.ExplicitEngine # ""
    THEN {[results |-> r.results, engine |-> s.ExplicitEngine, err |-> r.err]
          : r \in ManagerSearchExplicit(s.ExplicitEngine, NetworkError)}
    ELSE {[results |-> r.results, engine |-> r.name, err |-> r.err]
          : r \in ManagerSearch(NetworkError)}

\* printResults(results, count, startAt, ...) panics: the slice expression
\* results[startAt:end] with end = min(startAt+count, len(results)) is out
\* of range when startAt > end
printResultsPanics(results, count, startAt) ==
    LET end == IF startAt + count > Len(results) THEN Len(results)
               ELSE startAt + count
    IN  startAt < 0 \/ startAt > end

\* runSearch from line 321 on, the growth loop left: nothing to show ends
\* the run; else the window is printed and the prompt is shown (interactive)
\* or the run ends. msg is the error message printed, "" when none is.
display(s) ==
    IF Len(s.allResults) = 0
    THEN [s EXCEPT !.pc = "done", !.msg = "No results found"]
    ELSE LET count == IF s.ResultCount = 0 THEN Len(s.allResults)
                      ELSE s.ResultCount
         IN  IF printResultsPanics(s.allResults, count, s.startAt)
             THEN [s EXCEPT !.pc = "panic", !.msg = "slice bounds out of range"]
             ELSE [s EXCEPT !.pc = IF s.interactive THEN "prompt" ELSE "done",
                            !.msg = ""]

\* growthLoop testing <= where the code tests <
growthLoop_OneMore(s) ==
    IF Len(s.allResults) <= s.startAt + s.ResultCount
    THEN [s EXCEPT !.pc = "fetch"]
    ELSE display(s)

\* the head of the growth loop (line 300): performSearch is called while
\* the buffer is shorter than startAt + config.ResultCount
growthLoop(s) ==
    IF Len(s.allResults) < s.startAt + s.ResultCount
    THEN [s EXCEPT !.pc = "fetch"]
    ELSE display(s)

\* the outer loop of runSearch entered again after handleInteractiveSession
\* returned true: a new growth cycle, begun by the command `cause`
newCycle(s, cause) == growthLoop([s EXCEPT !.fetched = <<>>, !.cause = cause])

\* runSearch at line 293, the flags read: the session's first state
startSession(count, interactive, explicitEngine) ==
    growthLoop([pc |-> "fetch", query |-> "golang", TimeRange |-> "", Site |-> "",
                PageNo |-> 1, startAt |-> 0, allResults |-> <<>>,
                usedEngine |-> "", Expand |-> FALSE, Debug |-> FALSE,
                ResultCount |-> count, interactive |-> interactive,
                ExplicitEngine |-> explicitEngine,
                msg |-> "",
                fetched |-> <<>>, cause |-> "start", exhausted |-> FALSE])

\* fetchReturns putting the page in the buffer's place
fetchReturns_Replace(s, r) ==
    LET s1 == [s EXCEPT !.fetched = Append(@, [opts |-> Opts(s),
                                               n |-> Len(r.results),
                                               err |-> r.err # NoErr])]
    IN  IF r.err # NoErr
        THEN [s1 EXCEPT !.pc = "done", !.msg = "Search error"]
        ELSE LET s2 == [s1 EXCEPT !.usedEngine = IF @ = "" THEN r.engine ELSE @]
             IN  IF Len(r.results) = 0
                 THEN display([s2 EXCEPT !.exhausted = TRUE])
                 ELSE LET s3 == [s2 EXCEPT !.allResults = Page(r.results, Opts(s))]
                      IN  IF s.ResultCount = 0
                          THEN display(s3)
                          ELSE growthLoop([s3 EXCEPT !.PageNo = @ + 1])

\* one iteration of the growth loop (lines 301-318): performSearch returns
\* r. `fetched` notes the call, `exhausted` that a page came back empty.
fetchReturns(s, r) ==
    LET s1 == [s EXCEPT !.fetched = Append(@, [opts |-> Opts(s),
                                               n |-> Len(r.results),
                                               err |-> r.err # NoErr])]
    IN  IF r.err # NoErr
        THEN [s1 EXCEPT !.pc = "done", !.msg = "Search error"]
        ELSE LET s2 == [s1 EXCEPT !.usedEngine = IF @ = "" THEN r.engine ELSE @]
             IN  IF Len(r.results) = 0
                 THEN display([s2 EXCEPT !.exhausted = TRUE])
                 ELSE LET s3 == [s2 EXCEPT !.allResults = @ \o Page(r.results, Opts(s))]
                      IN  IF s.ResultCount = 0
                          THEN display(s3)
                          ELSE growthLoop([s3 EXCEPT !.PageNo = @ + 1])

\* the Dispatcher answers the call of the growth loop
Fetch ==
    /\ sess.pc = "fetch"
    /\ \E r \in performSearch(sess) :
         /\ Len(sess.allResults) + Len(r.results) <= MaxBuffer
         /\ sess' = fetchReturns(sess, r)
    /\ UNCHANGED <<registry, primary, fallbacks, last, inv>>

(* ---------------- handleInteractiveSession: one action per command ---------------- *)

\* the handler printed msg, an error message or nothing of the kind (""),
\* and reads the next line
reply(s, msg) == [s EXCEPT !.msg = msg]

\* printResults(*allResults, config.ResultCount, *startAt, ...) in a handler
reprint(s) ==
    IF printResultsPanics(s.allResults, s.ResultCount, s.startAt)
    THEN [s EXCEPT !.pc = "panic", !.msg = "slice bounds out of range"]
    ELSE reply(s, "")

validIndex_ZeroBased(s, str) ==
    Atoi(str).ok /\ Atoi(str).n >= 0 /\ Atoi(str).n < Len(s.allResults)

\* 0 < index <= len(*allResults) for the index written in str
validIndex(s, str) ==
    Atoi(str).ok /\ Atoi(str).n > 0 /\ Atoi(str).n <= Len(s.allResults)

\* the buffer, offset and page number set back (lines 492-494, 504-506,
\* 550-552), then return true; s already has the changed field
reset(s, cause) ==
    newCycle([s EXCEPT !.startAt = 0, !.PageNo = 1, !.allResults = <<>>,
                       !.msg = "",
                       !.exhausted =
                           IF Opts(s).Query = Opts(sess).Query
                              /\ Opts(s).TimeRange = Opts(sess).TimeRange
                              /\ Opts(s).Site = Opts(sess).Site
                           THEN @ ELSE FALSE],
             cause)

\* "q", "quit", "exit": return false
Quit(word) ==
    /\ sess.pc = "prompt"
    /\ sess' = [sess EXCEPT !.pc = "done", !.msg = ""]
    /\ UNCHANGED <<registry, primary, fallbacks, last, inv>>

\* ReadString fails (end of input): return false
EndOfInput ==
    /\ sess.pc = "prompt"
    /\ sess' = [sess EXCEPT !.pc = "done", !.msg = ""]
    /\ UNCHANGED <<registry, primary, fallbacks, last, inv>>

\* "?"
\* printHelp(), continue
helpCommand(s) == reply(s, "")

Help ==
    /\ sess.pc = "prompt"
    /\ sess' = helpCommand(sess)
    /\ UNCHANGED <<registry, primary, fallbacks, last, inv>>

\* "n": the offset advances by a page; at or past the end of the buffer the
\* page number is incremented and the growth loop entered again
NextPage ==
    /\ sess.pc = "prompt"
    /\ sess.PageNo < MaxPage
    /\ LET s1 == [sess EXCEPT !.startAt = @ + sess.ResultCount] IN
       sess' = IF s1.startAt >= Len(s1.allResults)
               THEN newCycle([s1 EXCEPT !.PageNo = @ + 1, !.msg = ""], "n")
               ELSE reprint(s1)
    /\ UNCHANGED <<registry, primary, fallbacks, last, inv>>

\* "p"
PrevPage ==
    /\ sess.pc = "prompt"
    /\ LET back == sess.startAt - sess.ResultCount IN
       sess' = reprint([sess EXCEPT !.startAt = IF back < 0 THEN 0 ELSE back])
    /\ UNCHANGED <<registry, primary, fallbacks, last, inv>>

\* "f"
FirstPage ==
    /\ sess.pc = "prompt"
    /\ sess' = reprint([sess EXCEPT !.startAt = 0])
    /\ UNCHANGED <<registry, primary, fallbacks, last, inv>>

\* "x"
toggleExpand_On(s) == reprint([s EXCEPT !.Expand = TRUE])

\* opts.Expand = !opts.Expand, then the page is printed again (lines 479-480)
toggleExpand(s) == reprint([s EXCEPT !.Expand = ~@])

ToggleExpand ==
    /\ sess.pc = "prompt"
    /\ sess' = toggleExpand(sess)
    /\ UNCHANGED <<registry, primary, fallbacks, last, inv>>

\* "d"
\* config.Debug = !config.Debug and the "Debug mode ..." line (lines 484-485)
toggleDebug(s) == reply([s EXCEPT !.Debug = ~@], "")

ToggleDebug ==
    /\ sess.pc = "prompt"
    /\ sess' = toggleDebug(sess)
    /\ UNCHANGED <<registry, primary, fallbacks, last, inv>>

\* changeTimeRange setting the range and resetting whatever the token
changeTimeRange_Unchecked(s, timeRange) ==
    reset([s EXCEPT !.TimeRange = expandTimeRange(timeRange)], "r")

\* "r <timeRange>" (lines 488-499)
changeTimeRange(s, timeRange) ==
    IF validateTimeRange(timeRange)
    THEN reset([s EXCEPT !.TimeRange = expandTimeRange(timeRange)], "r")
    ELSE reply(s, "Invalid time range")

ChangeTimeRange(timeRange) ==
    /\ sess.pc = "prompt"
    /\ sess' = changeTimeRange(sess, timeRange)
    /\ UNCHANGED <<registry, primary, fallbacks, last, inv>>

\* changeSite keeping the buffer
changeSite_KeepBuffer(s, site) ==
    newCycle([s EXCEPT !.Site = site, !.msg = ""], "site:")

\* "site:<site>" (lines 501-507)
changeSite(s, site) == reset([s EXCEPT !.Site = site], "site:")

ChangeSite(site) ==
    /\ sess.pc = "prompt"
    /\ sess' = changeSite(sess, site)
    /\ UNCHANGED <<registry, primary, fallbacks, last, inv>>

\* "c <index>" (lines 509-517)
copyCommand(s, indexStr) ==
    IF validIndex(s, indexStr)
    THEN reply(s, "")
    ELSE reply(s, "Invalid index specified.")

CopyURL(indexStr) ==
    /\ sess.pc = "prompt"
    /\ sess' = copyCommand(sess, indexStr)
    /\ UNCHANGED <<registry, primary, fallbacks, last, inv>>

\* "j <index>" (lines 519-533): nothing is printed for an index out of range
jsonCommand(s, indexStr) ==
    IF validIndex(s, indexStr)
    THEN reply(s, "")
    ELSE reply(s, "")

ShowJSON(indexStr) ==
    /\ sess.pc = "prompt"
    /\ sess' = jsonCommand(sess, indexStr)
    /\ UNCHANGED <<registry, primary, fallbacks, last, inv>>

\* any other line (lines 535-555): the index of a result opens its URL;
\* everything else but the empty line is a new query
defaultCase(s, input) ==
    IF validIndex(s, input)
    THEN reply(s, "")
    ELSE IF input # ""
         THEN reset([s EXCEPT !.query = input], "query")
         ELSE reply(s, "")

Default(input) ==
    /\ sess.pc = "prompt"
    /\ sess' = defaultCase(sess, input)
    /\ UNCHANGED <<registry, primary, fallbacks, last, inv>>

\* runSearch begins with the manager of the README's configuration: SearXNG
\* the primary, Brave (no API key) and Tavily the fallbacks
InitSession ==
    /\ initBackendManager("b2", "searxng", <<"brave", "tavily">>)
    /\ \E count \in 0..MaxCount, interactive \in BOOLEAN,
          explicitEngine \in {"", "tavily"} :
         sess = startSession(count, interactive, explicitEngine)
    /\ inv = NoCall

NextSession ==
    \/ Fetch
    \/ \E word \in {"q", "quit", "exit"} : Quit(word)
    \/ EndOfInput
    \/ Help
    \/ NextPage
    \/ PrevPage
    \/ FirstPage
    \/ ToggleExpand
    \/ ToggleDebug
    \/ \E timeRange \in TimeRangeInputs : ChangeTimeRange(timeRange)
    \/ \E site \in SiteInputs : ChangeSite(site)
    \/ \E indexStr \in IndexInputs : CopyURL(indexStr)
    \/ \E indexStr \in IndexInputs : ShowJSON(indexStr)
    \/ \E input \in DefaultInputs : Default(input)

\* one search session: the growth loop and the interactive commands
SpecSession == InitSession /\ [][NextSession]_vars

(* --------- Manager.Search followed from provider call to provider call --------- *)

\* no Manager.Search call in progress: the caller is between two calls
Idle == [pc |-> "idle", pos |-> 0, errors |-> <<>>, trace |-> <<>>, inflight |-> {}]

\* invoked starting the Search of every fallback from pos on at once
invoked_Hedged(pos) == {pos} \cup {j \in pos..Len(fallbacks) : j >= 1 /\ IsAvailable(fallbacks[j])}

\* the provider Search calls begun when the chain reaches position pos:
\* m.primary.Search(opts) at line 58, fb.Search(opts) at line 73
invoked(pos) == {pos}

\* the fallback loop of Manager.Search (lines 67-71) from position i up to
\* the next fb.Search(opts): the unavailable fallbacks passed are noted;
\* pos is Len(fallbacks) + 1 when the list is used up
RECURSIVE skipUnavailable(_, _, _)
skipUnavailable(i, errors, trace) ==
    IF i > Len(fallbacks) THEN [pos |-> i, errors |-> errors, trace |-> trace]
    ELSE LET fb == fallbacks[i]
             t1 == Append(trace, Event("IsAvailable", i, fb, <<>>, NoErr))
         IN  IF skipFallback(fb)
             THEN skipUnavailable(i + 1,
                                  Append(errors, <<Name(fb), ": not configured">>), t1)
             ELSE [pos |-> i, errors |-> errors, trace |-> t1]

\* performSearch calls Manager.Search (search.go:114): with no primary the
\* call returns at once, otherwise the primary's Search is invoked
CallSearch ==
    /\ inv.pc = "idle"
    /\ IF primary = Nil
       THEN /\ last' = Ret("Search", <<>>, <<>>, "",
                           Errorf(<<"no primary backend configured">>), <<>>)
            /\ inv' = inv
       ELSE /\ inv' = [pc |-> "waiting", pos |-> 0, errors |-> <<>>,
                       trace |-> <<>>, inflight |-> invoked(0)]
            /\ last' = last
    /\ UNCHANGED <<registry, primary, fallbacks, sess>>

\* the provider Search invoked at inv.pos returns o: Manager.Search returns
\* on success (lines 59-61, 74-76), else goes on to the next available
\* fallback and invokes its Search, or returns "all backends failed"
ProviderReturns ==
    /\ inv.pc = "waiting"
    /\ \E o \in BackendSearch(BackendAt(inv.pos), NetworkError) :
         LET b == BackendAt(inv.pos)
             t == Append(inv.trace, Event("Search", inv.pos, b, o.results, o.err))
             returned == inv.inflight \ {inv.pos}
         IN  IF succeeded(o)
             THEN /\ last' = Ret("Search", <<>>, o.results, Name(b), NoErr, t)
                  /\ inv' = [Idle EXCEPT !.inflight = returned]
             ELSE LET n == skipUnavailable(inv.pos + 1,
                                           Append(inv.errors, Error(o.err)), t)
                  IN  IF n.pos > Len(fallbacks)
                      THEN /\ last' = Ret("Search", <<>>, <<>>, "",
                                          Errorf(<<"all backends failed:", "\n  ">>
                                                 \o Join(n.errors, "\n  ")),
                                          n.trace)
                           /\ inv' = [Idle EXCEPT !.inflight = returned]
                      ELSE /\ inv' = [pc |-> "waiting", pos |-> n.pos,
                                      errors |-> n.errors, trace |-> n.trace,
                                      inflight |-> returned \cup invoked(n.pos)]
                           /\ last' = last
    /\ UNCHANGED <<registry, primary, fallbacks, sess>>

InitSerial ==
    \E brave \in {"b2", "b4"}, engine \in {"searxng", "brave", "tavily"} :
      \E names \in DistinctLists({"searxng", "brave", "tavily"} \ {engine}, MaxFallbacks) :
        /\ initBackendManager(brave, engine, names)
        /\ sess = NoSession
        /\ inv = Idle

NextSerial ==
    \/ CallSearch
    \/ ProviderReturns

\* the configured manager searching, one step per provider call and return
SpecSerial == InitSerial /\ [][NextSerial]_vars

(* ----------------------- reading a finished call ------------------------- *)

\* the indexes of the trace at which `call` was invoked at position pos
CallsAt(call, pos) ==
    {i \in DOMAIN last.trace : last.trace[i].call = call /\ last.trace[i].pos = pos}

\* the indexes of the trace at which any provider's Search was invoked
SearchCalls == {i \in DOMAIN last.trace : last.trace[i].call = "Search"}

\* the last call was Manager.Search with a primary set
Searched == last.op = "Search" /\ primary # Nil

\* ... and the primary's Search returned no error
PrimarySucceeded == Searched /\ last.trace[1].err = NoErr

\* ... and the primary's Search returned an error
PrimaryFailed == Searched /\ last.trace[1].err # NoErr

\* the last call was Manager.Search and the fallback at position k answered
\* its Search with no error
FallbackSucceededAt(k) ==
    /\ PrimaryFailed
    /\ k \in 1..Len(fallbacks)
    /\ \E i \in CallsAt("Search", k) : last.trace[i].err = NoErr

\* the text of an error cut into lines at the separator "\n  "
RECURSIVE Lines(_)
Lines(msg) ==
    IF \A i \in DOMAIN msg : msg[i] # "\n  " THEN <<msg>>
    ELSE LET k == CHOOSE i \in DOMAIN msg :
                    msg[i] = "\n  " /\ \A j \in 1..(i - 1) : msg[j] # "\n  "
         IN  <<SubSeq(msg, 1, k - 1)>> \o Lines(SubSeq(msg, k + 1, Len(msg)))

\* the token occurs in the line
Contains(line, token) == \E i \in DOMAIN line : line[i] = token

(* ------------------------------- claims --------------------------------- *)

\* C1: whenever the primary's Search returns no error, Manager.Search
\* returns exactly the results the primary returned, the primary's name and
\* no error, and the primary's Search is the only provider method invoked
\* (no fallback is asked anything).
C1_PrimaryShortCircuits ==
    PrimarySucceeded =>
        /\ last.trace[1] = Event("Search", 0, primary, last.results, NoErr)
        /\ last.name = Name(primary)
        /\ last.err = NoErr
        /\ Len(last.trace) = 1

\* C1 witness: the primary answered with results while an available
\* fallback was configured.
C1_Witness ==
    /\ PrimarySucceeded
    /\ last.results # <<>>
    /\ Len(fallbacks) >= 1
    /\ \E i \in DOMAIN fallbacks : fallbacks[i] # primary /\ IsAvailable(fallbacks[i])

\* C2 as claimed: when the fallback at position k is the one that succeeds,
\* the name and results returned are its own, every position before k
\* (the primary and the fallbacks 1..k-1) had its Search invoked exactly
\* once, no position after k had its Search invoked, and the calls were
\* made in list order.
C2_Claimed ==
    \A k \in 1..Len(fallbacks) :
        FallbackSucceededAt(k) =>
            /\ last.name = Name(fallbacks[k])
            /\ last.err = NoErr
            /\ \E i \in CallsAt("Search", k) : last.results = last.trace[i].results
            /\ \A j \in 0..(k - 1) : Cardinality(CallsAt("Search", j)) = 1
            /\ \A j \in (k + 1)..Len(fallbacks) : CallsAt("Search", j) = {}
            /\ \A i, j \in DOMAIN last.trace :
                   i < j => last.trace[i].pos <= last.trace[j].pos

\* C2 amended: as claimed, but a position before k had its Search invoked
\* exactly once only if it is the primary or its provider IsAvailable; an
\* unavailable fallback before k had its Search invoked not at all.
C2_FallbackOrder ==
    \A k \in 1..Len(fallbacks) :
        FallbackSucceededAt(k) =>
            /\ last.name = Name(fallbacks[k])
            /\ last.err = NoErr
            /\ \E i \in CallsAt("Search", k) : last.results = last.trace[i].results
            /\ \A j \in 0..(k - 1) :
                   Cardinality(CallsAt("Search", j)) =
                       IF j = 0 \/ IsAvailable(fallbacks[j]) THEN 1 ELSE 0
            /\ \A j \in (k + 1)..Len(fallbacks) :
                   CallsAt("Search", j) = {} /\ CallsAt("IsAvailable", j) = {}
            /\ \A i, j \in DOMAIN last.trace :
                   i < j => last.trace[i].pos <= last.trace[j].pos

\* C2 witness: the primary and the first fallback failed, the second
\* fallback succeeded (two distinct providers before position 2).
C2_Witness ==
    /\ FallbackSucceededAt(2)
    /\ IsAvailable(fallbacks[1])
    /\ fallbacks[1] # primary /\ fallbacks[2] # primary /\ fallbacks[1] # fallbacks[2]
    /\ last.results # <<>>

\* C3: in its role as a fallback, a provider whose IsAvailable() is false
\* never has its Search invoked: the position is skipped and the next
\* fallback is asked; when the whole chain fails the skipped position's line
\* of the message is "<name>: not configured"; and with a failing primary
\* and fallbacks [unconfigured, succeeding] the call returns the second
\* fallback's results and name with no error.
C3_UnavailableFallbackSkipped ==
    PrimaryFailed =>
        /\ \A i \in SearchCalls :
               last.trace[i].pos >= 1 => IsAvailable(last.trace[i].backend)
        /\ \A j \in 1..Len(fallbacks) :
               (CallsAt("IsAvailable", j) # {} /\ ~IsAvailable(fallbacks[j])) =>
                   /\ CallsAt("Search", j) = {}
                   /\ j < Len(fallbacks) => CallsAt("IsAvailable", j + 1) # {}
                   /\ last.err # NoErr =>
                          Lines(last.err.msg)[j + 2] =
                              <<Name(fallbacks[j]), ": not configured">>
        /\ (/\ Len(fallbacks) = 2
            /\ ~IsAvailable(fallbacks[1])
            /\ IsAvailable(fallbacks[2])) =>
               /\ Cardinality(CallsAt("Search", 2)) = 1
               /\ \A i \in CallsAt("Search", 2) :
                      last.trace[i].err = NoErr =>
                          /\ last.err = NoErr
                          /\ last.name = Name(fallbacks[2])
                          /\ last.results = last.trace[i].results

\* C3 witness: the primary failed, the first fallback is unconfigured and
\* the second answered with results.
C3_Witness ==
    /\ FallbackSucceededAt(2)
    /\ ~IsAvailable(fallbacks[1])
    /\ primary # fallbacks[1]
    /\ last.results # <<>>
    /\ last.name = Name(fallbacks[2])

\* what the Search invoked at a position returned as its error
ErrorAt(pos) == last.trace[CHOOSE i \in CallsAt("Search", pos) : TRUE].err

\* the fallback at position pos was asked and found unavailable
SkippedAt(pos) ==
    pos >= 1 /\ CallsAt("IsAvailable", pos) # {} /\ ~IsAvailable(fallbacks[pos])

\* the provider at position pos had its Search invoked and it failed
FailedAt(pos) ==
    \E i \in CallsAt("Search", pos) : last.trace[i].err # NoErr

\* the primary failed and every fallback either failed or is unavailable
ChainFailed ==
    /\ PrimaryFailed
    /\ \A j \in 1..Len(fallbacks) : FailedAt(j) \/ ~IsAvailable(fallbacks[j])

C5_ErrorNeverAborts ==
    Searched =>
        /\ last.err # NoErr =>
               \A pos \in 0..Len(fallbacks) : FailedAt(pos) \/ SkippedAt(pos)
        /\ \A i \in SearchCalls :
               (last.trace[i].err # NoErr /\ last.trace[i].pos < Len(fallbacks)) =>
                   CallsAt("IsAvailable", last.trace[i].pos + 1) # {}

\* C5 witness: the primary failed authentication, the first fallback was
\* rate-limited, and the second fallback answered.
C5_Witness ==
    /\ FallbackSucceededAt(2)
    /\ ErrorAt(0).Code = ErrCodeAuth
    /\ FailedAt(1) /\ ErrorAt(1).Code = ErrCodeRateLimit
    /\ last.err = NoErr

\* C6: with no primary set, Manager.Search fails at once with the error
\* "no primary backend configured" and invokes no method of any provider,
\* whatever the fallback list.
C6_NoPrimary ==
    (last.op = "Search" /\ primary = Nil) =>
        /\ last.err = Errorf(<<"no primary backend configured">>)
        /\ last.results = <<>>
        /\ last.name = ""
        /\ last.trace = <<>>

\* C6 witness: Search was called with no primary and an available fallback.
C6_Witness ==
    /\ last.op = "Search"
    /\ primary = Nil
    /\ \E i \in DOMAIN fallbacks : IsAvailable(fallbacks[i])

\* C7 as claimed: SetFallbacks(names) is all-or-nothing. If some name is
\* not registered the call returns an error and the fallback list is what it
\* was; otherwise the list becomes the named providers in the given order.
C7_Claimed ==
    [][last'.op = "SetFallbacks" =>
         LET names == last'.arg IN
         IF \A i \in DOMAIN names : names[i] \in DOMAIN registry
         THEN /\ last'.err = NoErr
              /\ fallbacks' = [i \in DOMAIN names |-> registry[names[i]]]
         ELSE /\ last'.err # NoErr
              /\ fallbacks' = fallbacks]_vars

\* C8: SetPrimary(name) with an unregistered name returns an error and
\* leaves the primary as it was; with a registered name it returns no error
\* and the primary is the provider registered under the name, available or
\* not.
C8_SetPrimary ==
    [][last'.op = "SetPrimary" =>
         LET name == last'.arg[1] IN
         IF name \in DOMAIN registry
         THEN last'.err = NoErr /\ primary' = registry[name]
         ELSE last'.err # NoErr /\ primary' = primary]_vars

\* C8 witness: SetPrimary failed for an unknown name while the primary was
\* a provider whose IsAvailable() is false (set by an earlier SetPrimary).
C8_Witness ==
    /\ last.op = "SetPrimary"
    /\ last.err # NoErr
    /\ primary # Nil
    /\ ~IsAvailable(primary)

\* C9: SearchExplicit(name, opts) invokes Search at most once and only on
\* the provider registered under name, so on no other provider of the chain.
\* With name unregistered, or its provider unavailable, it returns an error
\* and invokes no Search; otherwise it returns exactly what that provider's
\* one Search returned, results or error.
C9_SearchExplicit ==
    last.op = "SearchExplicit" =>
        LET name == last.arg[1] IN
        /\ Cardinality(SearchCalls) <= 1
        /\ \A i \in DOMAIN last.trace :
               name \in DOMAIN registry /\ last.trace[i].backend = registry[name]
        /\ IF name \notin DOMAIN registry \/ ~IsAvailable(registry[name])
           THEN last.err # NoErr /\ SearchCalls = {} /\ last.results = <<>>
           ELSE /\ Cardinality(SearchCalls) = 1
                /\ \A i \in SearchCalls :
                       /\ last.results = last.trace[i].results
                       /\ last.err = last.trace[i].err

\* C9 witness: the named provider, not the primary, failed, with a primary
\* and an available fallback configured, and the error came back as it was.
C9_Witness ==
    /\ last.op = "SearchExplicit"
    /\ last.err.type = "BackendError"
    /\ primary # Nil
    /\ last.arg[1] \in DOMAIN registry
    /\ registry[last.arg[1]] # primary
    /\ \E i \in DOMAIN fallbacks :
           IsAvailable(fallbacks[i]) /\ fallbacks[i] # registry[last.arg[1]]

\* C10: a provider searched by Manager.Search that returns zero results and
\* no error ends the call: the empty result is returned with that provider's
\* name and no error, and nothing is invoked after it.
C10_EmptyIsSuccess ==
    last.op = "Search" =>
        \A i \in SearchCalls :
            (last.trace[i].err = NoErr /\ last.trace[i].results = <<>>) =>
                /\ last.err = NoErr
                /\ last.results = <<>>
                /\ last.name = Name(last.trace[i].backend)
                /\ i = Len(last.trace)

\* C10 witness: the first fallback returned an empty page and no error
\* while a second, available fallback was left untried.
C10_Witness ==
    /\ FallbackSucceededAt(1)
    /\ last.results = <<>>
    /\ Len(fallbacks) = 2
    /\ IsAvailable(fallbacks[2])
    /\ fallbacks[2] # fallbacks[1]

\* C12: Register is last-wins by name. After Register(b) the registry holds
\* exactly one entry for b's name and it is b, whatever was registered under
\* the name before; the other entries are as they were; GetBackend(name)
\* returns b, SearchExplicit(name) asks no provider but b, and
\* AvailableBackends lists the name once.
C12_RegisterLastWins ==
    [][\A b \in Backends :
         Register(b) =>
           /\ DOMAIN registry' = DOMAIN registry \cup {Name(b)}
           /\ \A n \in DOMAIN registry \ {Name(b)} : registry'[n] = registry[n]
           /\ GetBackend(Name(b))' = [backend |-> b, ok |-> TRUE]
           /\ \A r \in ManagerSearchExplicit(Name(b), NetworkError)' :
                  \A i \in DOMAIN r.trace : r.trace[i].backend = b
           /\ \A names \in AvailableBackends' :
                  Cardinality({i \in DOMAIN names : names[i] = Name(b)}) = 1]_vars

\* C12 witness: the name "brave" was registered twice: the first provider
\* (b2, made primary in between) has been replaced in the registry by the
\* later one (b4).
C12_Witness ==
    /\ last.op = "Register"
    /\ primary = "b2"
    /\ "brave" \in DOMAIN registry
    /\ registry["brave"] = "b4"

\* C11: provider calls are serial. At most one provider Search is in
\* progress at any time (so a fallback's Search begins only after the
\* Search before it returned), none is in progress while the caller is
\* between two Manager.Search calls (the next call is issued only after the
\* previous one, with all its provider calls, returned), and a finished call
\* is one of the outcomes of Manager.Search taken as a whole.
C11_Serial ==
    /\ Cardinality(inv.inflight) <= 1
    /\ inv.pc = "idle" => inv.inflight = {}
    /\ inv.pc = "waiting" => inv.inflight = {inv.pos}
    /\ (inv.pc = "idle" /\ last.op = "Search") => last \in ManagerSearch(NetworkError)

\* C11 witness: the Search of the second fallback is in progress after the
\* primary's and the first fallback's Search both returned an error.
C11_Witness ==
    /\ inv.pc = "waiting"
    /\ inv.pos = 2
    /\ \E i, j \in DOMAIN inv.trace :
           /\ inv.trace[i].call = "Search" /\ inv.trace[i].pos = 0
           /\ inv.trace[j].call = "Search" /\ inv.trace[j].pos = 1

(* -------------------------- reading a session --------------------------- *)

\* the last Dispatcher call of the growth cycle
LastFetched(s) == s.fetched[Len(s.fetched)]

\* this step is the return of a Dispatcher call
FetchStep == sess.pc = "fetch" /\ Len(sess'.fetched) = Len(sess.fetched) + 1

\* this step ends a growth cycle without a Dispatcher error
CycleEnds == FetchStep /\ sess'.pc # "fetch" /\ ~LastFetched(sess').err

\* C13: a Dispatcher call is in progress only while the buffer is shorter
\* than startAt+count; a growth cycle with count > 0 that finishes without a
\* Dispatcher error leaves the buffer with at least startAt+count results
\* unless the last page fetched was empty; and a first page of exactly count
\* results ends the first cycle after that single fetch with the buffer of
\* length count and the page number 2.
C13_GrowthCycle ==
    [][/\ sess.pc = "fetch" =>
              Len(sess.allResults) < sess.startAt + sess.ResultCount
       /\ (CycleEnds /\ sess.ResultCount > 0) =>
              \/ Len(sess'.allResults) >= sess'.startAt + sess.ResultCount
              \/ LastFetched(sess').n = 0
       /\ (/\ FetchStep
           /\ sess.ResultCount > 0
           /\ sess.cause = "start"
           /\ sess.fetched = <<>>
           /\ LastFetched(sess').n = sess.ResultCount) =>
              /\ sess'.pc # "fetch"
              /\ Len(sess'.allResults) = sess.ResultCount
              /\ sess'.PageNo = 2
              /\ Len(sess'.fetched) = 1]_vars

\* C13 witness: with count 2 the first cycle took two fetches of one result
\* each and ended with the buffer holding startAt+count = 2 results.
C13_Witness ==
    /\ sess.pc = "prompt"
    /\ sess.ResultCount = 2
    /\ sess.cause = "start"
    /\ Len(sess.fetched) = 2
    /\ Len(sess.allResults) = sess.startAt + sess.ResultCount
    /\ sess.PageNo = 3

\* C14 as claimed: once a Dispatcher call has returned an empty page for
\* the current query, time range and site filter (sess.exhausted), no
\* Dispatcher call is in progress until one of the three changes.
C14_Claimed == sess.pc = "fetch" => ~sess.exhausted

\* C15 as claimed: with a result count of 0 the growth loop fetches exactly
\* one page from the Dispatcher, appends all of its results to the buffer,
\* and stops.
C15_Claimed ==
    (sess.ResultCount = 0 /\ sess.pc # "fetch") =>
        /\ Len(sess.fetched) = 1
        /\ ~LastFetched(sess).err => Len(sess.allResults) = LastFetched(sess).n

\* the result was returned by a Dispatcher call made with the query text,
\* time range and site filter of session s
Current(s, result) ==
    /\ result.opts.Query = s.query
    /\ result.opts.TimeRange = s.TimeRange
    /\ result.opts.Site = s.Site

\* C16: whenever a step leaves a Dispatcher call in progress or a window
\* displayed, every result in the buffer was returned by a Dispatcher call
\* made with the current query text, time range and site filter; and every
\* step that changes one of the three leaves the buffer empty, the display
\* offset 0 and the page number 1.
C16_BufferIsCurrent ==
    [][/\ sess'.pc \in {"fetch", "prompt"} =>
              \A i \in DOMAIN sess'.allResults : Current(sess', sess'.allResults[i])
       /\ (\/ sess'.query # sess.query
           \/ sess'.TimeRange # sess.TimeRange
           \/ sess'.Site # sess.Site) =>
              /\ sess'.allResults = <<>>
              /\ sess'.startAt = 0
              /\ sess'.PageNo = 1]_vars

\* C16 witness: a window is displayed after the query, the time range and
\* the site filter have each been changed from a session that had results.
C16_Witness ==
    /\ sess.pc = "prompt"
    /\ sess.query = "rust"
    /\ sess.TimeRange = "week"
    /\ sess.Site = "example.com"
    /\ Len(sess.allResults) = MaxBuffer

\* this step is a reset: an accepted time-range change, a site-filter
\* change or a new query
ResetStep ==
    \/ \E timeRange \in TimeRangeInputs :
         validateTimeRange(timeRange) /\ ChangeTimeRange(timeRange)
    \/ \E site \in SiteInputs : ChangeSite(site)
    \/ \E input \in DefaultInputs :
         ~validIndex(sess, input) /\ input # "" /\ Default(input)

\* C17: between two resets the buffer is append-only. A Dispatcher call
\* that returns a page without an error leaves the old buffer followed by
\* that page, entry for entry; a failed call leaves the buffer as it was;
\* and a command step changes the buffer only if it is a reset, which
\* empties it: no command removes, reorders or replaces an entry.
C17_AppendOnly ==
    [][/\ (FetchStep /\ ~LastFetched(sess').err) =>
              LET old == Len(sess.allResults)
                  n == LastFetched(sess').n
              IN  /\ Len(sess'.allResults) = old + n
                  /\ SubSeq(sess'.allResults, 1, old) = sess.allResults
                  /\ \A i \in 1..n :
                         /\ sess'.allResults[old + i].opts = Opts(sess)
                         /\ sess'.allResults[old + i].Title = i
       /\ (FetchStep /\ LastFetched(sess').err) =>
              sess'.allResults = sess.allResults
       /\ (~FetchStep /\ sess'.allResults # sess.allResults) =>
              (sess'.allResults = <<>> /\ ResetStep)]_vars

\* C17 witness: the buffer holds the pages of two growth cycles, the second
\* begun by "n", and the user has gone back to the first window.
C17_Witness ==
    /\ sess.pc = "prompt"
    /\ sess.cause = "n"
    /\ sess.startAt = 0
    /\ Len(sess.allResults) = MaxBuffer
    /\ sess.allResults[1].opts.PageNo # sess.allResults[MaxBuffer].opts.PageNo

\* the growth cycle begun by "n" (the advanced offset at or past the end of
\* the buffer) ends with this step
NextPageCycleEnds == sess.pc = "fetch" /\ sess.cause = "n" /\ sess'.pc # "fetch"

\* C18 as claimed: when "n" moved the offset to or past the end of the
\* buffer, the growth cycle it begins ends, whatever the Dispatcher
\* answers, with the window at the new offset displayed and the prompt
\* shown: no error, no crash.
C18_Claimed ==
    [][NextPageCycleEnds => (sess'.pc = "prompt" /\ sess'.msg = "")]_vars

\* the session's query, filters, buffer, display offset and page number are
\* as they were and the prompt is shown again: no Dispatcher call is begun
SessionUntouched ==
    /\ sess'.pc = "prompt"
    /\ sess'.query = sess.query
    /\ sess'.TimeRange = sess.TimeRange
    /\ sess'.Site = sess.Site
    /\ sess'.allResults = sess.allResults
    /\ sess'.startAt = sess.startAt
    /\ sess'.PageNo = sess.PageNo
    /\ sess'.fetched = sess.fetched

\* C19 as claimed: "c N", "j N" or a bare number N with N outside
\* 1..len(buffer) reports an error to the user and leaves the query, the
\* filters, the buffer, the display offset and the page number unchanged,
\* with no Dispatcher call.
C19_Claimed ==
    [][\A n \in IndexInputs \cup DefaultInputs :
         (/\ Atoi(n).ok
          /\ ~validIndex(sess, n)
          /\ \/ n \in IndexInputs /\ CopyURL(n)
             \/ n \in IndexInputs /\ ShowJSON(n)
             \/ n \in DefaultInputs /\ Default(n)) =>
            (sess'.msg # "" /\ SessionUntouched)]_vars

\* C20: "r <token>" with a token that is not one of day, week, month, year,
\* d, w, m, y is rejected with the "Invalid time range" message and leaves
\* the query, the time range, the site filter, the buffer, the display
\* offset and the page number unchanged, with no Dispatcher call.
C20_InvalidTimeRange ==
    [][\A token \in TimeRangeInputs :
         (/\ token \notin {"day", "week", "month", "year", "d", "w", "m", "y"}
          /\ ChangeTimeRange(token)) =>
            (sess'.msg = "Invalid time range" /\ SessionUntouched)]_vars

\* C20 witness: a token was rejected while the second window of a session
\* with a time range and a site filter was displayed.
C20_Witness ==
    /\ sess.pc = "prompt"
    /\ sess.msg = "Invalid time range"
    /\ sess.TimeRange = "week"
    /\ sess.Site = "example.com"
    /\ sess.startAt > 0
    /\ Len(sess.allResults) > sess.startAt

\* the long form of each of the eight time-range tokens
LongForm ==
    [token \in {"day", "week", "month", "year", "d", "w", "m", "y"} |->
        CASE token \in {"d", "day"} -> "day"
          [] token \in {"w", "week"} -> "week"
          [] token \in {"m", "month"} -> "month"
          [] token \in {"y", "year"} -> "year"]

\* C21: "r <token>" with a valid token sets the session's time range to the
\* token's long form (each of the eight tokens is accepted and expanded to
\* day, week, month or year), empties the buffer and sets the display
\* offset to 0; a Dispatcher call is then in progress, and it carries the
\* long form and page number 1.
C21_ChangeTimeRange ==
    [][/\ \A token \in DOMAIN LongForm :
              validateTimeRange(token) /\ expandTimeRange(token) = LongForm[token]
       /\ \A token \in TimeRangeInputs \cap DOMAIN LongForm :
              ChangeTimeRange(token) =>
                  /\ sess'.TimeRange = LongForm[token]
                  /\ sess'.allResults = <<>>
                  /\ sess'.startAt = 0
                  /\ sess'.pc = "fetch"
                  /\ Opts(sess').TimeRange = LongForm[token]
                  /\ Opts(sess').PageNo = 1
       /\ (FetchStep /\ sess.cause = "r" /\ sess.fetched = <<>>) =>
              /\ LastFetched(sess').opts.TimeRange = sess.TimeRange
              /\ LastFetched(sess').opts.PageNo = 1]_vars

\* C21 witness: "r w" or "r week" was entered in a session with a site
\* filter and the first Dispatcher call after it returned a result.
C21_Witness ==
    /\ sess.cause = "r"
    /\ sess.TimeRange = "week"
    /\ sess.Site = "example.com"
    /\ Len(sess.fetched) = 1
    /\ sess.fetched[1].opts.TimeRange = "week"
    /\ sess.fetched[1].n > 0

\* the interactive controller is running: the prompt is shown, or a growth
\* cycle begun by a command is waiting for the Dispatcher
Controlling ==
    \/ sess.pc = "prompt"
    \/ sess.pc = "fetch" /\ sess.cause # "start"

\* C22 as claimed: the controller terminates only on a quit token (q, quit,
\* exit) or on end of input; every other command, its rendering or its
\* fetch completed, leaves the prompt shown again.
C22_Claimed ==
    [][(Controlling /\ sess'.pc \notin {"prompt", "fetch"}) =>
          /\ sess.pc = "prompt"
          /\ sess'.pc = "done"
          /\ \/ \E word \in {"q", "quit", "exit"} : Quit(word)
             \/ EndOfInput]_vars

\* a session record without the message of its last step
Shown(s) == [s EXCEPT !.msg = ""]

\* C23: "x" and "d" each flip their own display flag and nothing else: the
\* query, the filters, the buffer, the display offset and the page number
\* are unchanged and no Dispatcher call is made; the same toggle entered
\* twice restores the state before the first.
C23_Toggles ==
    [][/\ ToggleExpand =>
            /\ sess'.Expand = ~sess.Expand
            /\ Shown(sess') = Shown([sess EXCEPT !.Expand = ~@])
            /\ SessionUntouched
            /\ Shown(toggleExpand(sess')) = Shown(sess)
       /\ ToggleDebug =>
            /\ sess'.Debug = ~sess.Debug
            /\ Shown(sess') = Shown([sess EXCEPT !.Debug = ~@])
            /\ SessionUntouched
            /\ Shown(toggleDebug(sess')) = Shown(sess)]_vars

C23_Witness ==
    /\ sess.pc = "prompt"
    /\ sess.Expand
    /\ sess.Debug
    /\ sess.allResults # <<>>
    /\ sess.startAt > 0

\* the handler's result t has the query, filters, buffer, display offset,
\* page number and display flags of s, with the prompt shown and no
\* Dispatcher call made
ReadOnly(s, t) == Shown(t) = Shown(s)

\* C24: "?", and "c N", "j N" and a bare "N" with N in 1..len(buffer), only
\* read the session: no Dispatcher call is made and the query, the filters,
\* the buffer, the display offset and the page number are unchanged.
C24_ReadOnly ==
    sess.pc = "prompt" =>
        /\ ReadOnly(sess, helpCommand(sess))
        /\ \A N \in 1..Len(sess.allResults) :
              /\ ReadOnly(sess, copyCommand(sess, ToString(N)))
              /\ ReadOnly(sess, jsonCommand(sess, ToString(N)))
              /\ ReadOnly(sess, defaultCase(sess, ToString(N)))

C24_Witness ==
    /\ sess.pc = "prompt"
    /\ Len(sess.allResults) = MaxBuffer
    /\ sess.startAt > 0
    /\ sess.msg = ""
    /\ sess.cause = "n"
    /\ validIndex(sess, "1")

-----------------------------------------------------------------------------
\* The providers: SearxngBackend.Search, BraveBackend.Search and
\* TavilyBackend.Search as functions of the provider's configuration, the
\* search options and the outcome of the HTTP exchange.  SpecProvider draws
\* a provider, its configuration and the options, and one step applies the
\* provider's Search to an exchange the environment chooses.

\* the largest opts.NumResults drawn
MaxNumResults == 21

\* http.StatusOK and the statuses the providers' switch names
StatusOK == 200
StatusUnauthorized == 401
StatusForbidden == 403
StatusTooManyRequests == 429

\* "count > 20" and "count = 10" of Brave, the same of Tavily
BraveMaxCount == 20
BraveDefaultCount == 10
TavilyMaxResults == 20
TavilyDefaultResults == 10

Providers == {"searxng", "brave", "tavily"}

\* resp.StatusCode of a response
StatusCodes ==
    {StatusOK, 204, StatusUnauthorized, StatusForbidden, 404,
     StatusTooManyRequests, 500}

\* the call of Search that fails, if one does, and the status of the
\* response if the exchange gets that far
Exchanges ==
    [fails : {"none", "url.Parse", "json.Marshal", "http.NewRequest",
              "client.Do", "io.ReadAll", "json.Unmarshal"},
     StatusCode : StatusCodes]

\* s.BaseURL, s.HTTPMethod; b.APIKey; t.APIKey
Configs(provider) ==
    IF provider = "searxng"
    THEN [BaseURL : {"", "searx.local", "https://searx.local"},
          HTTPMethod : {"GET", "POST"}]
    ELSE [APIKey : {"", "key"}]

\* url.Parse(s.BaseURL) giving a scheme and a host
hasSchemeAndHost(baseURL) == baseURL = "https://searx.local"

SearxngIsAvailable(self) ==
    IF self.BaseURL = "" THEN FALSE ELSE hasSchemeAndHost(self.BaseURL)

BraveIsAvailable(self) == self.APIKey # ""

TavilyIsAvailable(self) == self.APIKey # ""

\* &BackendError{Backend: name, Err: fmt.Errorf(text), Code: code}
providerError(name, text, code) ==
    [type |-> "BackendError", Backend |-> name, Code |-> code,
     msg |-> <<text>>, list |-> {}]

\* what a Search did about its HTTP request, and what it returned
NoRequest == [built |-> FALSE, sent |-> FALSE, params |-> <<>>]
Sent(params) == [built |-> TRUE, sent |-> TRUE, params |-> params]
Returned(request, ok, err) == [request |-> request, ok |-> ok, err |-> err]

\* buildParams: pageno only past the first page
buildParams(opts) ==
    IF opts.PageNo > 1 THEN [pageno |-> opts.PageNo] ELSE <<>>

searxngRequest(self, opts, http) ==
    LET params == buildParams(opts)
        wrapError(text, code) == providerError("searxng", text, code)
    IN  IF self.HTTPMethod # "POST" /\ http.fails = "url.Parse"
        THEN Returned([NoRequest EXCEPT !.params = params], FALSE,
                      wrapError("invalid SearXNG URL", ErrCodeInvalidResponse))
        ELSE IF http.fails = "http.NewRequest"
        THEN Returned([NoRequest EXCEPT !.params = params], FALSE,
                      wrapError("http.NewRequest", ErrCodeNetwork))
        ELSE IF http.fails = "client.Do"
        THEN Returned(Sent(params), FALSE, wrapError("client.Do", ErrCodeNetwork))
        ELSE IF http.StatusCode # StatusOK
        THEN Returned(Sent(params), FALSE,
                      wrapError("HTTP", http.StatusCode))
        ELSE IF http.fails = "io.ReadAll"
        THEN Returned(Sent(params), FALSE,
                      wrapError("io.ReadAll", ErrCodeInvalidResponse))
        ELSE IF http.fails = "json.Unmarshal"
        THEN Returned(Sent(params), FALSE,
                      wrapError("failed to parse JSON", ErrCodeInvalidResponse))
        ELSE Returned(Sent(params), TRUE, NoErr)

SearxngSearch_NoCheck(self, opts, http) == searxngRequest(self, opts, http)

SearxngSearch(self, opts, http) ==
    IF ~SearxngIsAvailable(self)
    THEN Returned(NoRequest, FALSE,
                  providerError("searxng", "SearXNG URL not configured",
                                ErrCodeUnavailable))
    ELSE searxngRequest(self, opts, http)

\* the switch on resp.StatusCode that Brave and Tavily share
statusError(name, StatusCode) ==
    CASE StatusCode \in {StatusUnauthorized, StatusForbidden} ->
             providerError(name, "authentication failed", ErrCodeAuth)
      [] StatusCode = StatusTooManyRequests ->
             providerError(name, "rate limited", ErrCodeRateLimit)
      [] OTHER -> providerError(name, "HTTP", StatusCode)

braveCount_Unclamped(NumResults) == NumResults

\* "Set result count (max 20)"
braveCount(NumResults) ==
    IF NumResults <= 0 \/ NumResults > BraveMaxCount
    THEN BraveDefaultCount
    ELSE NumResults

braveParams_PageTimesCount(opts) ==
    IF opts.PageNo > 1
    THEN [count |-> braveCount(opts.NumResults),
          offset |-> opts.PageNo * braveCount(opts.NumResults)]
    ELSE [count |-> braveCount(opts.NumResults)]

\* params.Set("count", ...) and, past the first page, params.Set("offset", ...)
braveParams(opts) ==
    IF opts.PageNo > 1
    THEN [count |-> braveCount(opts.NumResults),
          offset |-> (opts.PageNo - 1) * braveCount(opts.NumResults)]
    ELSE [count |-> braveCount(opts.NumResults)]

BraveSearch(self, opts, http) ==
    LET params == braveParams(opts)
        err(text, code) == providerError("brave", text, code)
    IN  IF ~BraveIsAvailable(self)
        THEN Returned(NoRequest, FALSE,
                      err("Brave API key not configured", ErrCodeUnavailable))
        ELSE IF http.fails = "http.NewRequest"
        THEN Returned([NoRequest EXCEPT !.params = params], FALSE,
                      err("failed to create request", ErrCodeNetwork))
        ELSE IF http.fails = "client.Do"
        THEN Returned(Sent(params), FALSE, err("request failed", ErrCodeNetwork))
        ELSE IF http.fails = "io.ReadAll"
        THEN Returned(Sent(params), FALSE,
                      err("failed to read response", ErrCodeInvalidResponse))
        ELSE IF http.StatusCode # StatusOK
        THEN Returned(Sent(params), FALSE, statusError("brave", http.StatusCode))
        ELSE IF http.fails = "json.Unmarshal"
        THEN Returned(Sent(params), FALSE,
                      err("failed to parse JSON", ErrCodeInvalidResponse))
        ELSE Returned(Sent(params), TRUE, NoErr)

\* numResults of the request body
tavilyMaxResults(NumResults) ==
    IF NumResults <= 0 \/ NumResults > TavilyMaxResults
    THEN TavilyDefaultResults
    ELSE NumResults

TavilySearch(self, opts, http) ==
    LET params == [max_results |-> tavilyMaxResults(opts.NumResults)]
        err(text, code) == providerError("tavily", text, code)
    IN  IF ~TavilyIsAvailable(self)
        THEN Returned(NoRequest, FALSE,
                      err("Tavily API key not configured", ErrCodeUnavailable))
        ELSE IF http.fails = "json.Marshal"
        THEN Returned([NoRequest EXCEPT !.params = params], FALSE,
                      err("failed to marshal request", ErrCodeInvalidResponse))
        ELSE IF http.fails = "http.NewRequest"
        THEN Returned([NoRequest EXCEPT !.params = params], FALSE,
                      err("failed to create request", ErrCodeNetwork))
        ELSE IF http.fails = "client.Do"
        THEN Returned(Sent(params), FALSE, err("request failed", ErrCodeNetwork))
        ELSE IF http.fails = "io.ReadAll"
        THEN Returned(Sent(params), FALSE,
                      err("failed to read response", ErrCodeInvalidResponse))
        ELSE IF http.StatusCode # StatusOK
        THEN Returned(Sent(params), FALSE, statusError("tavily", http.StatusCode))
        ELSE IF http.fails = "json.Unmarshal"
        THEN Returned(Sent(params), FALSE,
                      err("failed to parse JSON", ErrCodeInvalidResponse))
        ELSE Returned(Sent(params), TRUE, NoErr)

\* provider.Search(opts)
ProviderSearch(provider, self, opts, http) ==
    CASE provider = "searxng" -> SearxngSearch(self, opts, http)
      [] provider = "brave" -> BraveSearch(self, opts, http)
      [] provider = "tavily" -> TavilySearch(self, opts, http)

\* a provider constructed and about to be searched
InitProvider ==
    /\ registry = << >>
    /\ primary = Nil
    /\ fallbacks = <<>>
    /\ last = Ret("NewManager", <<>>, <<>>, "", NoErr, <<>>)
    /\ sess = NoSession
    /\ \E provider \in Providers, NumResults \in -1..MaxNumResults,
          PageNo \in 0..MaxPage :
         \E self \in Configs(provider) :
           inv = [pc |-> "call", provider |-> provider, self |-> self,
                  opts |-> [NumResults |-> NumResults, PageNo |-> PageNo]]

\* the Search of the provider, with the exchange http
Exchange(http) ==
    /\ inv.pc = "call"
    /\ inv' = [pc |-> "returned", provider |-> inv.provider, self |-> inv.self,
               opts |-> inv.opts, http |-> http,
               ret |-> ProviderSearch(inv.provider, inv.self, inv.opts, http)]
    /\ UNCHANGED <<registry, primary, fallbacks, last, sess>>

NextProvider == \E http \in Exchanges : Exchange(http)

SpecProvider == InitProvider /\ [][NextProvider]_vars

-----------------------------------------------------------------------------
\* Claims about the providers (SpecProvider).

\* the provider's Search has returned
SearchReturned == inv.pc = "returned"

\* the response arrived and its body was read: the status decides the result
StatusDecides ==
    /\ SearchReturned
    /\ inv.ret.request.sent
    /\ inv.http.fails \in {"none", "json.Unmarshal"}

\* provider.IsAvailable() of the provider searched
Available ==
    CASE inv.provider = "searxng" -> SearxngIsAvailable(inv.self)
      [] inv.provider = "brave" -> BraveIsAvailable(inv.self)
      [] inv.provider = "tavily" -> TavilyIsAvailable(inv.self)

\* C25 as claimed: for each of the three providers, a response with HTTP
\* status 401 or 403 gives an error of kind auth and one with status 429 an
\* error of kind rate-limit.
C25_Claimed ==
    StatusDecides =>
        /\ inv.http.StatusCode \in {401, 403} =>
               (~inv.ret.ok /\ inv.ret.err.Code = ErrCodeAuth)
        /\ inv.http.StatusCode = 429 =>
               (~inv.ret.ok /\ inv.ret.err.Code = ErrCodeRateLimit)

\* C26 as claimed: every error a provider's Search returns carries exactly
\* one of the five kinds; a non-2xx status other than 401, 403 and 429, and
\* any failure not classified otherwise, has kind network.
C26_Claimed ==
    (SearchReturned /\ ~inv.ret.ok) =>
        /\ inv.ret.err.type = "BackendError"
        /\ inv.ret.err.Code \in ErrCodes
        /\ (/\ StatusDecides
            /\ inv.http.StatusCode \notin 200..299
            /\ inv.http.StatusCode \notin {401, 403, 429}) =>
               inv.ret.err.Code = ErrCodeNetwork

\* C27: for each provider, Search while IsAvailable() is false returns an
\* error of kind unavailable that names the provider, and no HTTP request
\* is built or sent.
C27_Unavailable ==
    (SearchReturned /\ ~Available) =>
        /\ ~inv.ret.request.built
        /\ ~inv.ret.request.sent
        /\ ~inv.ret.ok
        /\ inv.ret.err.type = "BackendError"
        /\ inv.ret.err.Code = ErrCodeUnavailable
        /\ inv.ret.err.Backend = inv.provider

C27_Witness ==
    /\ SearchReturned
    /\ inv.provider = "searxng"
    /\ inv.self.BaseURL = "searx.local"
    /\ inv.http.fails = "none" /\ inv.http.StatusCode = 200
    /\ inv.ret.err.Code = ErrCodeUnavailable
    /\ inv.ret.err.Backend = "searxng"

\* C28: the count Brave sends and the max_results Tavily sends equal n for
\* 1 <= n <= 20 and are 10 when n <= 0 or n > 20, n the requested number of
\* results.
C28_Clamp ==
    (SearchReturned /\ inv.ret.request.sent) =>
        LET n == inv.opts.NumResults
            expected == IF 1 <= n /\ n <= 20 THEN n ELSE 10
        IN  /\ inv.provider = "brave" =>
                inv.ret.request.params.count = expected
            /\ inv.provider = "tavily" =>
                inv.ret.request.params.max_results = expected

C28_Witness ==
    /\ SearchReturned
    /\ inv.provider = "tavily"
    /\ inv.opts.NumResults = 21
    /\ inv.ret.request.sent
    /\ inv.ret.request.params.max_results = 10
    /\ inv.ret.ok

\* C29: the offset Brave sends is (p - 1) * count, count the value sent as
\* count, and no offset is sent when p <= 1, p the page number.
C29_Offset ==
    (SearchReturned /\ inv.provider = "brave" /\ inv.ret.request.sent) =>
        LET p == inv.opts.PageNo
            params == inv.ret.request.params
        IN  IF p <= 1
            THEN DOMAIN params = {"count"}
            ELSE /\ DOMAIN params = {"count", "offset"}
                 /\ params.offset = (p - 1) * params.count

C29_Witness ==
    /\ SearchReturned
    /\ inv.provider = "brave"
    /\ inv.opts.PageNo = 3
    /\ inv.opts.NumResults = 0
    /\ inv.ret.request.sent
    /\ inv.ret.request.params.offset = 20
    /\ inv.ret.ok

-----------------------------------------------------------------------------
\* Categories: validateCategory and normalizeCategory of search.go, and the
\* normalizeCategory of the backends package that buildParams applies.
\* SpecCategory draws the --categories list, validates it as run does and
\* builds the categories parameter as SearxngBackend.buildParams does.

\* the longest --categories list drawn
MaxCategories == 2

searxngCategories ==
    <<"general", "news", "videos", "images", "music",
      "map", "science", "it", "files", "social media">>

categoryAliases ==
    [alias \in {"social+media", "social-media", "social_media", "socialmedia"} |->
        "social media"]

validateCategory(category) ==
    \/ \E i \in 1..Len(searxngCategories) : searxngCategories[i] = category
    \/ category \in DOMAIN categoryAliases

normalizeCategory_Identity(category) == category

normalizeCategory(category) ==
    IF category \in DOMAIN categoryAliases
    THEN categoryAliases[category]
    ELSE category

\* normalizeCategory of searxng.go, with its own aliases map
searxngNormalizeCategory(category) ==
    LET aliases == [alias \in {"social+media", "social-media", "social_media",
                               "socialmedia"} |-> "social media"]
    IN  IF category \in DOMAIN aliases THEN aliases[category] ELSE category

\* the values given to --categories
CategoryInputs ==
    {searxngCategories[i] : i \in 1..Len(searxngCategories)}
        \cup DOMAIN categoryAliases
        \cup {"", "invalid", "News", "social", "Social-Media"}

\* the category shortcut flags given together with --categories
ShortcutInputs == {{}, {"news"}, {"social"}, {"files", "videos"}}

shortcuts_Ignored(flags, Categories) == Categories

\* "Handle category shortcuts": each flag that is set replaces the list,
\* the last of files, music, news, social, videos that is set wins
shortcuts(flags, Categories) ==
    IF "videos" \in flags THEN <<"videos">>
    ELSE IF "social" \in flags THEN <<"social media">>
    ELSE IF "news" \in flags THEN <<"news">>
    ELSE IF "music" \in flags THEN <<"music">>
    ELSE IF "files" \in flags THEN <<"files">>
    ELSE Categories

InitCategory ==
    /\ registry = << >>
    /\ primary = Nil
    /\ fallbacks = <<>>
    /\ last = Ret("NewManager", <<>>, <<>>, "", NoErr, <<>>)
    /\ sess = NoSession
    /\ \E Categories \in DistinctLists(CategoryInputs, MaxCategories),
          flags \in ShortcutInputs, configured \in BOOLEAN :
         inv = [pc |-> "flags", requested |-> Categories, flags |-> flags,
                configured |-> configured, Categories |-> Categories,
                invalid |-> "", msg |-> "", sent |-> <<>>]

\* runSearch from the shortcuts to "Validate categories": the shortcuts
\* replace the list, a SearXNG engine without URL and fallbacks ends the
\* run, and so does the first category that is not valid
ValidateCategories ==
    /\ inv.pc = "flags"
    /\ LET list == shortcuts(inv.flags, inv.Categories)
           bad == {i \in 1..Len(list) : ~validateCategory(list[i])}
       IN  inv' = IF ~inv.configured
                  THEN [inv EXCEPT !.pc = "rejected", !.Categories = list,
                                   !.msg = "searxng_url is not set"]
                  ELSE IF bad = {}
                  THEN [inv EXCEPT !.pc = "validated", !.Categories = list]
                  ELSE [inv EXCEPT !.pc = "rejected", !.Categories = list,
                                   !.msg = "Invalid category",
                                   !.invalid = list[
                                       CHOOSE i \in bad : \A j \in bad : i <= j]]
    /\ UNCHANGED <<registry, primary, fallbacks, last, sess>>

\* buildParams: every category normalized, in order, for the categories
\* parameter
BuildCategories ==
    /\ inv.pc = "validated"
    /\ inv' = [inv EXCEPT !.pc = "sent",
                          !.sent = [i \in 1..Len(inv.Categories) |->
                                       searxngNormalizeCategory(inv.Categories[i])]]
    /\ UNCHANGED <<registry, primary, fallbacks, last, sess>>

NextCategory == ValidateCategories \/ BuildCategories

SpecCategory == InitCategory /\ [][NextCategory]_vars

\* C30: normalizeCategory maps social+media, social-media, social_media and
\* socialmedia to "social media" and leaves every other string unchanged;
\* it is idempotent; and for every c that validateCategory accepts,
\* normalizeCategory(c) is one of the ten canonical categories.  So are the
\* categories sent to SearXNG for a validated list.
C30_Normalize ==
    LET Canonical == {"general", "news", "videos", "images", "music", "map",
                      "science", "it", "files", "social media"}
        Aliases == {"social+media", "social-media", "social_media", "socialmedia"}
        Expected(c) == IF c \in Aliases THEN "social media" ELSE c
    IN  /\ \A c \in CategoryInputs :
              /\ normalizeCategory(c) = Expected(c)
              /\ searxngNormalizeCategory(c) = Expected(c)
              /\ normalizeCategory(normalizeCategory(c)) = normalizeCategory(c)
              /\ searxngNormalizeCategory(searxngNormalizeCategory(c))
                     = searxngNormalizeCategory(c)
              /\ validateCategory(c) => normalizeCategory(c) \in Canonical
        /\ inv.pc = "sent" =>
              \A i \in 1..Len(inv.Categories) :
                  /\ inv.sent[i] = Expected(inv.Categories[i])
                  /\ inv.sent[i] \in Canonical

C30_Witness ==
    /\ inv.pc = "sent"
    /\ inv.Categories = <<"social-media", "news">>
    /\ inv.sent = <<"social media", "news">>

\* the ten categories and the four aliases, as the specification lists them
KnownCategories ==
    {"general", "news", "videos", "images", "music", "map", "science", "it",
     "files", "social media", "social+media", "social-media", "social_media",
     "socialmedia"}

\* a list with a category that is neither canonical nor an alias
HasUnknown(list) == \E i \in 1..Len(list) : list[i] \notin KnownCategories

\* C31 as claimed: if any requested category is neither a canonical
\* category nor a recognised alias, the run ends with an "Invalid category"
\* error before any Dispatcher or provider call is made.
C31_Claimed ==
    (HasUnknown(inv.requested) /\ inv.pc # "flags") =>
        (inv.pc = "rejected" /\ inv.msg = "Invalid category")

\* C31, amended: if any category of the list left by the category shortcut
\* flags is neither canonical nor an alias, a run that passed the
\* configuration check ends with an "Invalid category" error naming the
\* first such category, and no Dispatcher or provider call is made; no
\* other run ends with that error.
C31_InvalidCategory ==
    [][/\ (ValidateCategories /\ inv.configured) =>
             /\ inv.flags = {} => inv'.Categories = inv.requested
             /\ inv.flags # {} =>
                    (Len(inv'.Categories) = 1 /\ ~HasUnknown(inv'.Categories))
             /\ IF HasUnknown(inv'.Categories)
                THEN /\ inv'.pc = "rejected"
                     /\ inv'.msg = "Invalid category"
                     /\ inv'.invalid \notin KnownCategories
                     /\ inv'.sent = <<>>
                ELSE inv'.pc = "validated"
       /\ inv.pc = "rejected" => inv'.pc = "rejected"
       /\ BuildCategories => ~HasUnknown(inv.Categories)]_vars

C31_Witness ==
    /\ inv.pc = "rejected"
    /\ inv.msg = "Invalid category"
    /\ inv.requested = <<"news", "News">>
    /\ inv.invalid = "News"
    /\ inv.sent = <<>>

-----------------------------------------------------------------------------
\* Time ranges: SpecTimeRange draws the --time-range flag, validates and
\* expands it as runSearch does, and then takes "r <token>" commands.

\* the tokens given to --time-range and to "r"
TimeRangeTokens ==
    {"day", "week", "month", "year", "d", "w", "m", "y",
     "", "invalid", "decade", "hour", "unknown", "D", "dd", "days"}

InitTimeRange ==
    /\ registry = << >>
    /\ primary = Nil
    /\ fallbacks = <<>>
    /\ last = Ret("NewManager", <<>>, <<>>, "", NoErr, <<>>)
    /\ sess = NoSession
    /\ \E flag \in TimeRangeTokens :
         inv = [pc |-> "flags", flag |-> flag, token |-> flag,
                TimeRange |-> flag, msg |-> ""]

\* "Validate time range": a flag that is set is validated, and expanded
ValidateTimeRange ==
    /\ inv.pc = "flags"
    /\ inv' = IF inv.TimeRange # ""
              THEN IF ~validateTimeRange(inv.TimeRange)
                   THEN [inv EXCEPT !.pc = "rejected", !.msg = "Invalid time range"]
                   ELSE [inv EXCEPT !.pc = "prompt",
                                    !.TimeRange = expandTimeRange(inv.TimeRange)]
              ELSE [inv EXCEPT !.pc = "prompt"]
    /\ UNCHANGED <<registry, primary, fallbacks, last, sess>>

\* "r <token>": a valid token is expanded and becomes the time range
TimeRangeCommand(timeRange) ==
    /\ inv.pc = "prompt"
    /\ inv' = IF validateTimeRange(timeRange)
              THEN [inv EXCEPT !.token = timeRange, !.msg = "",
                               !.TimeRange = expandTimeRange(timeRange)]
              ELSE [inv EXCEPT !.token = timeRange, !.msg = "Invalid time range"]
    /\ UNCHANGED <<registry, primary, fallbacks, last, sess>>

NextTimeRange ==
    \/ ValidateTimeRange
    \/ \E timeRange \in TimeRangeTokens : TimeRangeCommand(timeRange)

SpecTimeRange == InitTimeRange /\ [][NextTimeRange]_vars

\* C32: expandTimeRange maps d to day, w to week, m to month and y to year
\* and returns every other token unchanged, so it is idempotent; for every
\* token validateTimeRange accepts the expansion is one of day, week, month,
\* year.  So is every time range a run holds after a flag or an "r" command
\* was accepted.
C32_Expand ==
    LET Long == {"day", "week", "month", "year"}
        Short == [d |-> "day", w |-> "week", m |-> "month", y |-> "year"]
        Expected(t) == IF t \in DOMAIN Short THEN Short[t] ELSE t
    IN  /\ \A t \in TimeRangeTokens :
              /\ expandTimeRange(t) = Expected(t)
              /\ expandTimeRange(expandTimeRange(t)) = expandTimeRange(t)
              /\ validateTimeRange(t) => expandTimeRange(t) \in Long
        /\ (inv.pc = "prompt" /\ inv.msg = "" /\ inv.token # "") =>
              /\ inv.TimeRange = Expected(inv.token)
              /\ inv.TimeRange \in Long

C32_Witness ==
    /\ inv.pc = "prompt"
    /\ inv.flag = "year"
    /\ inv.token = "m"
    /\ inv.TimeRange = "month"
    /\ inv.msg = ""

-----------------------------------------------------------------------------
\* Claims about paging (SpecSession).

\* the page numbers of the Dispatcher calls whose results are in the buffer
PagesInBuffer(s) ==
    {s.allResults[i].opts.PageNo : i \in 1..Len(s.allResults)}

\* C33 as claimed: within one query/filter epoch the page numbers passed to
\* the Dispatcher are 1, 2, 3, ... consecutively; the page number advances
\* by exactly one per successful non-empty fetch and by nothing else, so no
\* page is skipped or requested twice under any sequence of "n", "p", "f".
C33_Claimed ==
    sess.pc = "fetch" => PagesInBuffer(sess) = 1..(sess.PageNo - 1)

\* C34 as claimed: whenever a page is rendered the display offset satisfies
\* 0 <= startAt <= len(buffer), so the rendered window is a valid range,
\* after any sequence of "n", "p", "f" and any fetch outcomes.  (A page is
\* rendered on the way to the prompt, and at the crash of the rendering.)
C34_Claimed ==
    sess.pc \in {"prompt", "panic"} =>
        (0 <= sess.startAt /\ sess.startAt <= Len(sess.allResults))

-----------------------------------------------------------------------------
\* Claims about the manager's chain and its registry (Spec).

\* C35 as claimed: within a single Manager.Search call each provider has
\* its Search invoked at most once, for every primary and fallback list
\* that SetPrimary and SetFallbacks accept (lists naming the primary or
\* repeating a name included).
C35_Claimed ==
    Searched =>
        \A i, j \in SearchCalls :
            last.trace[i].backend = last.trace[j].backend => i = j

\* the provider is the one the registry holds under its name
Registered(b) == Name(b) \in DOMAIN registry /\ registry[Name(b)] = b

\* C36 as claimed: after any sequence of Register, SetPrimary and
\* SetFallbacks calls the primary and every fallback is the provider
\* currently registered under its name, so Manager.Search dispatches to the
\* most recently registered provider for each name.
C36_Claimed ==
    /\ primary # Nil => Registered(primary)
    /\ \A i \in 1..Len(fallbacks) : Registered(fallbacks[i])

-----------------------------------------------------------------------------
\* Claims about the buffer's providers and the growth cycle (SpecSession).

\* C37 as claimed: within one query/filter epoch all results accumulated in
\* the buffer were returned by the same provider; pages answered by
\* different providers are never mixed in one buffer.
C37_Claimed ==
    sess.pc # "none" =>
        \A i, j \in 1..Len(sess.allResults) :
            sess.allResults[i].Engine = sess.allResults[j].Engine

\* the number of results the Dispatcher calls of the log brought
RECURSIVE Brought(_)
Brought(fetched) ==
    IF fetched = <<>> THEN 0
    ELSE fetched[Len(fetched)].n + Brought(SubSeq(fetched, 1, Len(fetched) - 1))

\* C38: each growth cycle terminates for every provider behaviour: it
\* issues at most startAt+count-len(buffer) Dispatcher calls, len(buffer)
\* the length at the start of the cycle, because every call either fails
\* (ending the run), returns an empty page (ending the cycle) or adds at
\* least one result.
C38_CycleBound ==
    [][FetchStep =>
          /\ \/ LastFetched(sess').err /\ sess'.pc = "done"
             \/ LastFetched(sess').n = 0 /\ sess'.pc # "fetch"
             \/ Len(sess'.allResults) > Len(sess.allResults)
          /\ Len(sess'.fetched) <=
                 sess.startAt + sess.ResultCount
                     - (Len(sess'.allResults) - Brought(sess'.fetched))]_vars

C38_Witness ==
    /\ sess.pc = "prompt"
    /\ sess.cause = "n"
    /\ sess.startAt = 1
    /\ sess.ResultCount = 1
    /\ Len(sess.allResults) = 2
    /\ Len(sess.fetched) = 1
    /\ Brought(sess.fetched) = 1

-----------------------------------------------------------------------------
\* Claims about the manager's read-only methods (SpecMethods).

\* this step is a call of one of the five methods
ReadOnlyCall ==
    \/ last'.op = "Search" /\ Search
    \/ last'.op = "SearchExplicit" /\ \E name \in NameInputs : SearchExplicit(name)
    \/ last'.op = "GetBackend" /\ \E name \in NameInputs : CallGetBackend(name)
    \/ last'.op = "AvailableBackends" /\ CallAvailableBackends
    \/ last'.op = "ConfiguredBackends" /\ CallConfiguredBackends

\* C39: Manager.Search, SearchExplicit, GetBackend, AvailableBackends and
\* ConfiguredBackends never change the registry, the primary or the
\* fallback list: the fallback order set by SetFallbacks stays the same
\* across any number of searches, whatever their outcomes.
C39_ReadOnly ==
    [][ReadOnlyCall =>
          (registry' = registry /\ primary' = primary /\ fallbacks' = fallbacks)]_vars

C39_Witness ==
    /\ last.op = "Search"
    /\ last.err = NoErr
    /\ Len(fallbacks) = 2
    /\ fallbacks[1] # fallbacks[2]
    /\ primary \notin {Nil, fallbacks[1], fallbacks[2]}
    /\ last.name = Name(fallbacks[2])

-----------------------------------------------------------------------------
\* The query history: appendHistory, trimHistory and readHistoryLines.  The
\* history file is the sequence of its lines.  SpecHistory draws the
\* configuration and takes appendHistory calls.

\* the most appendHistory calls that write, and the largest max_history drawn
MaxAppends == 5
MaxHistoryInput == 2

\* defaultMaxHistory of config.go
defaultMaxHistory == 100

\* the queries runSearch and the interactive session hand to appendHistory:
\* empty, plain, ending in a space, and a single space
QueryInputs == {"", "go", "rust", "go ", " "}

\* strings.TrimSpace on the queries
TrimSpace(str) ==
    CASE str = "go " -> "go"
      [] str = " " -> ""
      [] OTHER -> str

\* fmt.Sprintf("%s\t%s\n", time.Now().Format(time.RFC3339), query): the line
\* of an entry; Timestamp is the number of the write, Tab the tab character
entry(clock, query) == [Timestamp |-> clock, Tab |-> TRUE, Query |-> query]

\* strings.TrimSpace(scanner.Text()) on a line of the file: white space at
\* the end of the query goes, and the tab with it when nothing follows it
trimLine(line) ==
    IF ~line.Tab \/ TrimSpace(line.Query) = ""
    THEN [Timestamp |-> line.Timestamp, Tab |-> FALSE, Query |-> ""]
    ELSE [line EXCEPT !.Query = TrimSpace(@)]

\* readHistoryLines(): the trimmed lines (no line is empty: each begins
\* with its timestamp)
readHistoryLines(file) == [i \in 1..Len(file) |-> trimLine(file[i])]

\* trimHistory(): the file rewritten with the last maxHistory lines read
\* when it holds more
trimHistory(MaxHistory, file) ==
    LET maxHistory == IF MaxHistory <= 0 THEN defaultMaxHistory ELSE MaxHistory
        lines == readHistoryLines(file)
    IN  IF Len(lines) <= maxHistory THEN file
        ELSE SubSeq(lines, Len(lines) - maxHistory + 1, Len(lines))

\* appendHistory(query) on the history h
appendHistory(h, query) ==
    IF ~h.HistoryEnabled \/ query = "" THEN h
    ELSE IF ~h.stateDir THEN h
    ELSE [h EXCEPT !.clock = @ + 1,
                   !.log = Append(@, query),
                   !.file = trimHistory(h.MaxHistory,
                                        Append(h.file, entry(h.clock + 1, query)))]

\* the configuration loaded, no history file yet; stateDir is whether
\* getStateDir() finds a directory
InitHistory ==
    /\ registry = << >>
    /\ primary = Nil
    /\ fallbacks = <<>>
    /\ last = Ret("NewManager", <<>>, <<>>, "", NoErr, <<>>)
    /\ sess = NoSession
    /\ \E HistoryEnabled \in BOOLEAN, MaxHistory \in -1..MaxHistoryInput,
          stateDir \in BOOLEAN :
         inv = [pc |-> "history", HistoryEnabled |-> HistoryEnabled,
                MaxHistory |-> MaxHistory, stateDir |-> stateDir,
                clock |-> 0, log |-> <<>>, file |-> <<>>]

AppendHistory(query) ==
    /\ inv.pc = "history"
    /\ inv.clock < MaxAppends
    /\ inv' = appendHistory(inv, query)
    /\ UNCHANGED <<registry, primary, fallbacks, last, sess>>

NextHistory == \E query \in QueryInputs : AppendHistory(query)

SpecHistory == InitHistory /\ [][NextHistory]_vars

\* C40 as claimed: after any sequence of appendHistory calls with history
\* enabled the history file holds at most MaxHistory entries (100 when
\* MaxHistory <= 0), and they are the most recently appended non-empty
\* queries in append order; appendHistory with history disabled or with an
\* empty query leaves the file unchanged.
C40_Claimed ==
    inv.pc = "history" =>
        LET max == IF inv.MaxHistory <= 0 THEN 100 ELSE inv.MaxHistory
            n == Len(inv.log)
            kept == IF n <= max THEN n ELSE max
        IN  /\ ~inv.HistoryEnabled => inv.file = <<>>
            /\ Len(inv.file) = kept
            /\ \A i \in 1..kept :
                  /\ inv.file[i].Timestamp = n - kept + i
                  /\ inv.file[i].Tab
                  /\ inv.file[i].Query = inv.log[n - kept + i]

====
